---- MODULE Spec2Model ----
(***************************************************************************)
(* App Store Reviews Viewer: the App component (state, effects, handlers)  *)
(* together with the browser pieces it talks to (location, session         *)
(* history, timers, the fetch wrapper of the service module).              *)
(*                                                                         *)
(* The repository holds two revisions of the component: src/src/App.tsx    *)
(* and src/unnamed/part_001 (custom app id form, review filter).  The      *)
(* variable "variant" says which one a behaviour runs.                     *)
(*                                                                         *)
(* Granularity: one action is one browser task (an event handler, a timer  *)
(* callback, the continuation of an awaited promise) followed by React's   *)
(* re-render and the effects that render schedules.                        *)
(***************************************************************************)
EXTENDS Integers, Sequences, FiniteSets, TLC

\* ------------------------------------------------------------------------
\* Bounds of the exploration
\* ------------------------------------------------------------------------
MaxRequests == 2    \* getReviews calls issued in one behaviour
MaxHistory == 2     \* length of the session history

\* ------------------------------------------------------------------------
\* JavaScript values
\* ------------------------------------------------------------------------
null == [type |-> "null"]
NaN == [type |-> "NaN"]
Num(n) == [type |-> "number", value |-> n]
Str(s) == [type |-> "string", value |-> s]

isNaN(x) == x = NaN
IsNumber(x) == x.type = "number"
\* JavaScript truthiness of a number | null value.
Truthy(x) == IsNumber(x) /\ x.value # 0

Digits == <<"0", "1", "2", "3", "4", "5", "6", "7", "8", "9">>
IsDigit(c) == \E i \in 1..10 : Digits[i] = c
DigitVal(c) == (CHOOSE i \in 1..10 : Digits[i] = c) - 1

\* Length of the longest prefix of s made of digits.
DigitPrefixLen(s) ==
  IF \A i \in 1..Len(s) : IsDigit(s[i]) THEN Len(s)
  ELSE (CHOOSE i \in 1..Len(s) :
          /\ ~IsDigit(s[i])
          /\ \A j \in 1..(i - 1) : IsDigit(s[j])) - 1

RECURSIVE DecValue(_)
DecValue(ds) ==
  IF ds = <<>> THEN 0
  ELSE 10 * DecValue(SubSeq(ds, 1, Len(ds) - 1)) + DigitVal(ds[Len(ds)])

\* parseInt(s, 10): optional sign, then the longest run of digits; NaN when
\* there is none.  Anything after the digits is ignored.
parseInt(s) ==
  LET signed == Len(s) > 0 /\ s[1] \in {"-", "+"}
      body == IF signed THEN SubSeq(s, 2, Len(s)) ELSE s
      k == DigitPrefixLen(body)
      v == DecValue(SubSeq(body, 1, k))
  IN  IF k = 0 THEN NaN
      ELSE IF signed /\ s[1] = "-" THEN Num(0 - v) ELSE Num(v)

\* Number(s) for the strings an <option> value can hold: "" is 0, a run of
\* digits is its value, anything else is NaN.
Number(s) ==
  IF s = <<>> THEN Num(0)
  ELSE IF DigitPrefixLen(s) = Len(s) THEN Num(DecValue(s))
  ELSE NaN

\* n.toString() / template interpolation of a number.
RECURSIVE toString(_)
toString(n) ==
  IF n < 0 THEN <<"-">> \o toString(0 - n)
  ELSE IF n < 10 THEN <<Digits[n + 1]>>
  ELSE toString(n \div 10) \o <<Digits[(n % 10) + 1]>>

\* ------------------------------------------------------------------------
\* URL helpers
\* ------------------------------------------------------------------------
AppPrefix == <<"/", "a", "p", "p", "/">>
RootPath == <<"/">>

\* path.match(/\/app\/(\d+)/) succeeds at position i.
MatchesAt(path, i) ==
  /\ i + 5 <= Len(path)
  /\ SubSeq(path, i, i + 4) = AppPrefix
  /\ IsDigit(path[i + 5])

getAppIdFromUrlOfPath(path) ==
  IF \E i \in 1..Len(path) : MatchesAt(path, i)
  THEN LET i == CHOOSE p \in 1..Len(path) :
                  MatchesAt(path, p) /\ \A q \in 1..(p - 1) : ~MatchesAt(path, q)
           rest == SubSeq(path, i + 5, Len(path))
       IN  parseInt(SubSeq(rest, 1, DigitPrefixLen(rest)))
  ELSE null

\* The path updateUrl pushes for appId.
updateUrlPath(appId) ==
  IF Truthy(appId) THEN AppPrefix \o toString(appId.value) ELSE RootPath

\* ------------------------------------------------------------------------
\* Service module: apiRequest and what a catch block makes of its rejection
\* ------------------------------------------------------------------------
\* What fetch() can do other than deliver a 2xx response.
FetchFailures ==
  { [kind |-> "status", status |-> 500],
    [kind |-> "throws", isError |-> FALSE] }

\* The value apiRequest rejects with: always an Error.
apiRequest(outcome) ==
  IF outcome.kind = "status"
  THEN IF outcome.status = 422
       THEN [isError |-> TRUE, message |-> <<"Validation Error: ", outcome.detail>>]
       ELSE [isError |-> TRUE, message |-> <<"HTTP error! status: ", outcome.status>>]
  ELSE IF outcome.isError
       THEN [isError |-> TRUE, message |-> outcome.message]
       ELSE [isError |-> TRUE, message |-> <<"An unexpected error occurred">>]

\* A catch block that always reports its own text.
ErrorTextFallbackOnly(err, fallback) == Str(<<fallback>>)

\* err instanceof Error ? err.message : fallback
ErrorText(err, fallback) ==
  IF err.isError THEN Str(err.message) ELSE Str(<<fallback>>)

InvalidAppIdMessage == Str(<<"Please enter a valid app ID (positive number)">>)

\* ------------------------------------------------------------------------
\* Inputs
\* ------------------------------------------------------------------------
V1 == "App.tsx"
V2 == "part_001"

\* Paths the page can be opened at.
InitialPaths ==
  { RootPath,
    AppPrefix \o <<"1">>,
    AppPrefix \o <<"3">>,
    AppPrefix \o <<"0">> }

\* Catalogues the backend can answer getApps with (lists of app ids).
AppLists == { <<>>, <<1, 2>> }

\* What can be typed into the custom app id field.
CustomInputs == { <<>>, <<"0">>, <<"-", "1">>, <<"3">> }

\* What can be typed into the review filter field.
FilterInputs == { <<"7">> }

DefaultFilterDays == 10

\* ------------------------------------------------------------------------
\* State
\* ------------------------------------------------------------------------
VARIABLES
  variant,           \* which revision of App runs
  pc,                \* "init", "mounted" or "unmounted"
  history,           \* session history: the paths of its entries
  historyIndex,      \* the current entry; window.location.pathname is its path
  apps,              \* useState: ids of the loaded apps
  selectedAppId,     \* useState: number | null
  customAppId,       \* useState: string (part_001)
  reviews,           \* useState: Review[]
  loadingApps,       \* useState
  loadingReviews,    \* useState
  error,             \* useState: string | null
  reviewFilterDays,  \* useState: number (part_001)
  intervals,         \* live setInterval timers with what their callback captured
  handlerApps,       \* the apps list the registered popstate listener closes over
  appsPending,       \* the getApps request is in flight
  getAppsCalls,      \* number of getApps calls made
  pending,           \* getReviews requests in flight, in order of issue
  nextReq            \* id of the next getReviews request

vars ==
  << variant, pc, history, historyIndex, apps, selectedAppId, customAppId,
     reviews, loadingApps, loadingReviews, error, reviewFilterDays, intervals,
     handlerApps, appsPending, getAppsCalls, pending, nextReq >>

pathname == history[historyIndex]
getAppIdFromUrl == getAppIdFromUrlOfPath(pathname)

Mounted == pc = "mounted"

some(list, id) == \E i \in 1..Len(list) : list[i] = id

\* The two revisions render the controls under different conditions.
DropdownShown ==
  /\ Mounted
  /\ ~loadingApps
  /\ Len(apps) > 0
  /\ variant = V2 => error = null

FormShown ==
  /\ Mounted
  /\ variant = V2
  /\ error = null
  /\ ~loadingApps

\* value={selectedAppId || ""}: the option the <select> displays.
DisplayedOption ==
  IF Truthy(selectedAppId) /\ some(apps, selectedAppId.value)
  THEN toString(selectedAppId.value)
  ELSE <<>>

OptionValues == { <<>> } \cup { toString(apps[i]) : i \in 1..Len(apps) }

Init ==
  /\ variant \in {V1, V2}
  /\ pc = "init"
  /\ history \in { <<p>> : p \in InitialPaths }
  /\ historyIndex = 1
  /\ apps = <<>>
  /\ selectedAppId = null
  /\ customAppId = <<>>
  /\ reviews = <<>>
  /\ loadingApps = FALSE
  /\ loadingReviews = FALSE
  /\ error = null
  /\ reviewFilterDays = DefaultFilterDays
  /\ intervals = <<>>
  /\ handlerApps = <<>>
  /\ appsPending = FALSE
  /\ getAppsCalls = 0
  /\ pending = <<>>
  /\ nextReq = 1

\* ------------------------------------------------------------------------
\* Effects
\* ------------------------------------------------------------------------
\* A cleanup that forgets the timer.
clearIntervalForgotten(ivs) == ivs

\* clearInterval(interval) in the cleanup of the polling effect: the timer
\* that effect run created goes away.
clearInterval(ivs) ==
  IF ivs = <<>> THEN <<>> ELSE SubSeq(ivs, 1, Len(ivs) - 1)

\* A listener registered once, with empty deps: it keeps the list of the
\* first render.
ListenerAppsStale(apps2) == handlerApps

\* The apps list seen by the popstate listener after a render with apps2:
\* part_001 re-registers the listener whenever apps changes.
ListenerApps(apps2) ==
  IF variant = V2 THEN apps2 ELSE handlerApps

\* A fetchReviews that clears the error before its await in both revisions,
\* as App.tsx does.
FetchReviewsCallClearsError(appId, days, err2) ==
  /\ nextReq <= MaxRequests
  /\ pending' = Append(pending, [id |-> nextReq, appId |-> appId, days |-> days])
  /\ nextReq' = nextReq + 1
  /\ loadingReviews' = TRUE
  /\ error' = null

\* fetchReviews(appId) up to its await: the request leaves, loadingReviews is
\* set and App.tsx clears the error.  err2 is the error the handler left.
FetchReviewsCall(appId, days, err2) ==
  /\ nextReq <= MaxRequests
  /\ pending' = Append(pending, [id |-> nextReq, appId |-> appId, days |-> days])
  /\ nextReq' = nextReq + 1
  /\ loadingReviews' = TRUE
  /\ error' = IF variant = V1 THEN null ELSE err2

\* The polling effect, deps [selectedAppId, fetchReviews], after a render in
\* which the handler left selectedAppId = sel2, reviewFilterDays = days2,
\* error = err2 and loadingReviews = lr2.  fetchReviews changes identity
\* exactly when reviewFilterDays does.
PollingEffect(sel2, days2, err2, lr2) ==
  IF sel2 = selectedAppId /\ days2 = reviewFilterDays
  THEN /\ intervals' = intervals
       /\ pending' = pending
       /\ nextReq' = nextReq
       /\ loadingReviews' = lr2
       /\ error' = err2
  ELSE LET cleared == IF selectedAppId = null THEN intervals
                      ELSE clearInterval(intervals)
       IN  IF sel2 = null
           THEN /\ intervals' = cleared
                /\ pending' = pending
                /\ nextReq' = nextReq
                /\ loadingReviews' = lr2
                /\ error' = err2
           ELSE /\ FetchReviewsCall(sel2.value, days2, err2)
                /\ intervals' = Append(cleared, [appId |-> sel2.value, days |-> days2])

\* window.history.pushState({}, "", path)
pushState(path) ==
  /\ historyIndex < MaxHistory
  /\ history' = Append(SubSeq(history, 1, historyIndex), path)
  /\ historyIndex' = historyIndex + 1

RemoveAt(s, k) == SubSeq(s, 1, k - 1) \o SubSeq(s, k + 1, Len(s))

\* Bodies the backend can answer a getReviews request with: no review, or one
\* review of the requested app (tagged with the request it answers).
ResponseBodies(req) ==
  { <<>>, <<[appId |-> req.appId, req |-> req.id]>> }

\* ------------------------------------------------------------------------
\* Mount: first render and its effects
\* ------------------------------------------------------------------------
Mount ==
  /\ pc = "init"
  /\ pc' = "mounted"
  \* fetchApps() up to its await
  /\ loadingApps' = TRUE
  /\ error' = IF variant = V1 THEN null ELSE error
  /\ appsPending' = TRUE
  /\ getAppsCalls' = getAppsCalls + 1
  \* popstate listener registered
  /\ handlerApps' = apps
  \* polling effect: selectedAppId === null, returns at once
  /\ UNCHANGED << variant, history, historyIndex, apps, selectedAppId,
                  customAppId, reviews, loadingReviews, reviewFilterDays,
                  intervals, pending, nextReq >>

\* ------------------------------------------------------------------------
\* fetchApps after its await
\* ------------------------------------------------------------------------
\* A mount that selects the URL's app only when the catalogue lists it, in
\* both revisions.
AppsOkSelectionListed(items) ==
  LET urlAppId == getAppIdFromUrl
  IN  IF Truthy(urlAppId) /\ some(items, urlAppId.value) THEN urlAppId
      ELSE selectedAppId

\* selectedAppId after a successful getApps answering with items.
AppsOkSelection(items) ==
  LET urlAppId == getAppIdFromUrl
  IN  IF ~Truthy(urlAppId) THEN selectedAppId
      ELSE IF variant = V1 THEN urlAppId
      ELSE IF some(items, urlAppId.value) THEN urlAppId
      ELSE selectedAppId

\* customAppId after a successful getApps answering with items.
AppsOkCustom(items) ==
  LET urlAppId == getAppIdFromUrl
  IN  IF variant = V2 /\ Truthy(urlAppId) /\ ~some(items, urlAppId.value)
      THEN toString(urlAppId.value)
      ELSE customAppId

AppsOk(items) ==
  /\ Mounted
  /\ appsPending
  /\ appsPending' = FALSE
  /\ apps' = items
  /\ selectedAppId' = AppsOkSelection(items)
  /\ customAppId' = AppsOkCustom(items)
  /\ loadingApps' = FALSE
  /\ handlerApps' = ListenerApps(items)
  /\ PollingEffect(AppsOkSelection(items), reviewFilterDays,
                   IF variant = V2 THEN null ELSE error, loadingReviews)
  /\ UNCHANGED << variant, pc, history, historyIndex, reviews,
                  reviewFilterDays, getAppsCalls >>

AppsRejected(failure) ==
  /\ Mounted
  /\ appsPending
  /\ appsPending' = FALSE
  /\ error' = ErrorText(apiRequest(failure), "Failed to fetch apps")
  /\ loadingApps' = FALSE
  /\ UNCHANGED << variant, pc, history, historyIndex, apps, selectedAppId,
                  customAppId, reviews, loadingReviews, reviewFilterDays,
                  intervals, handlerApps, getAppsCalls, pending, nextReq >>

\* ------------------------------------------------------------------------
\* Browser back/forward
\* ------------------------------------------------------------------------
\* selectedAppId after handlePopState ran with the URL at path.
PopStateSelection(path) ==
  LET urlAppId == getAppIdFromUrlOfPath(path)
  IN  IF variant = V1 THEN urlAppId
      ELSE IF Truthy(urlAppId) /\ some(handlerApps, urlAppId.value) THEN urlAppId
      ELSE null

\* customAppId after handlePopState ran with the URL at path.
PopStateCustom(path) ==
  LET urlAppId == getAppIdFromUrlOfPath(path)
  IN  IF variant = V1 THEN customAppId
      ELSE IF Truthy(urlAppId) /\ ~some(handlerApps, urlAppId.value)
           THEN toString(urlAppId.value)
      ELSE <<>>

handlePopState(j) ==
  /\ Mounted
  /\ j \in 1..Len(history)
  /\ j # historyIndex
  /\ historyIndex' = j
  /\ selectedAppId' = PopStateSelection(history[j])
  /\ customAppId' = PopStateCustom(history[j])
  /\ PollingEffect(PopStateSelection(history[j]), reviewFilterDays, error,
                   loadingReviews)
  /\ UNCHANGED << variant, pc, history, apps, reviews, loadingApps,
                  reviewFilterDays, handlerApps, appsPending, getAppsCalls >>

\* ------------------------------------------------------------------------
\* Dropdown
\* ------------------------------------------------------------------------
handleAppSelect(value) ==
  /\ DropdownShown
  /\ value \in OptionValues
  /\ value # DisplayedOption
  /\ selectedAppId' = Number(value)
  /\ customAppId' = <<>>
  /\ pushState(updateUrlPath(Number(value)))
  /\ PollingEffect(Number(value), reviewFilterDays, error, loadingReviews)
  /\ UNCHANGED << variant, pc, apps, reviews, loadingApps, reviewFilterDays,
                  handlerApps, appsPending, getAppsCalls >>

\* ------------------------------------------------------------------------
\* Polling timer and getReviews responses
\* ------------------------------------------------------------------------
\* A callback that skips its turn while a request is still loading.
TimerTickUnlessLoading(i) ==
  /\ Mounted
  /\ ~loadingReviews
  /\ i \in 1..Len(intervals)
  /\ FetchReviewsCall(intervals[i].appId, intervals[i].days, error)
  /\ UNCHANGED << variant, pc, history, historyIndex, apps, selectedAppId,
                  customAppId, reviews, loadingApps, reviewFilterDays,
                  intervals, handlerApps, appsPending, getAppsCalls >>

TimerTick(i) ==
  /\ Mounted
  /\ i \in 1..Len(intervals)
  /\ FetchReviewsCall(intervals[i].appId, intervals[i].days, error)
  /\ UNCHANGED << variant, pc, history, historyIndex, apps, selectedAppId,
                  customAppId, reviews, loadingApps, reviewFilterDays,
                  intervals, handlerApps, appsPending, getAppsCalls >>

ReviewsOk(k, items) ==
  /\ Mounted
  /\ k \in 1..Len(pending)
  /\ items \in ResponseBodies(pending[k])
  /\ pending' = RemoveAt(pending, k)
  /\ error' = IF variant = V2 THEN null ELSE error
  /\ reviews' = items
  /\ loadingReviews' = FALSE
  /\ UNCHANGED << variant, pc, history, historyIndex, apps, selectedAppId,
                  customAppId, loadingApps, reviewFilterDays, intervals,
                  handlerApps, appsPending, getAppsCalls, nextReq >>

ReviewsRejected(k, failure) ==
  /\ Mounted
  /\ k \in 1..Len(pending)
  /\ pending' = RemoveAt(pending, k)
  /\ error' = ErrorText(apiRequest(failure), "Failed to fetch reviews")
  /\ loadingReviews' = FALSE
  /\ UNCHANGED << variant, pc, history, historyIndex, apps, selectedAppId,
                  customAppId, reviews, loadingApps, reviewFilterDays,
                  intervals, handlerApps, appsPending, getAppsCalls, nextReq >>

\* ------------------------------------------------------------------------
\* part_001: custom app id form and review filter
\* ------------------------------------------------------------------------
ChangeCustomAppId(value) ==
  /\ FormShown
  /\ value \in CustomInputs
  /\ value # customAppId
  /\ customAppId' = value
  /\ UNCHANGED << variant, pc, history, historyIndex, apps, selectedAppId,
                  reviews, loadingApps, loadingReviews, error,
                  reviewFilterDays, intervals, handlerApps, appsPending,
                  getAppsCalls, pending, nextReq >>

\* A check that lets 0 through.
ValidCustomAppIdNonNegative(appId) == ~isNaN(appId) /\ appId.value >= 0

\* !isNaN(appId) && appId > 0
ValidCustomAppId(appId) == ~isNaN(appId) /\ appId.value > 0

handleCustomAppIdSubmit ==
  /\ FormShown
  /\ LET appId == parseInt(customAppId)
     IN  IF ValidCustomAppId(appId)
         THEN /\ selectedAppId' = appId
              /\ customAppId' = <<>>
              /\ pushState(updateUrlPath(appId))
              /\ PollingEffect(appId, reviewFilterDays, error, loadingReviews)
         ELSE /\ error' = InvalidAppIdMessage
              /\ UNCHANGED << history, historyIndex, selectedAppId,
                              customAppId, loadingReviews, intervals, pending,
                              nextReq >>
  /\ UNCHANGED << variant, pc, apps, reviews, loadingApps, reviewFilterDays,
                  handlerApps, appsPending, getAppsCalls >>

\* parseInt(e.target.value) || 1
FilterDaysOf(value) ==
  LET n == parseInt(value) IN IF Truthy(n) THEN n.value ELSE 1

SetFilterDays(days) ==
  /\ FormShown
  /\ reviewFilterDays' = days
  /\ PollingEffect(selectedAppId, days, error, loadingReviews)
  /\ UNCHANGED << variant, pc, history, historyIndex, apps, selectedAppId,
                  customAppId, reviews, loadingApps, handlerApps, appsPending,
                  getAppsCalls >>

ChangeReviewFilter(value) ==
  /\ value \in FilterInputs
  /\ value # toString(reviewFilterDays)
  /\ SetFilterDays(FilterDaysOf(value))

ResetReviewFilter == SetFilterDays(DefaultFilterDays)

\* ------------------------------------------------------------------------
\* Unmount
\* ------------------------------------------------------------------------
\* The cleanups run (clearInterval, removeEventListener) and React discards
\* the state of the component: the useState cells are gone, so they are
\* shown here with the values a fresh component would have.  Requests still
\* in flight stay in flight; their continuations call setters of a component
\* that no longer exists, which does nothing.
Unmount ==
  /\ Mounted
  /\ pc' = "unmounted"
  /\ intervals' = IF selectedAppId = null THEN intervals
                  ELSE clearInterval(intervals)
  /\ apps' = <<>>
  /\ selectedAppId' = null
  /\ customAppId' = <<>>
  /\ reviews' = <<>>
  /\ loadingApps' = FALSE
  /\ loadingReviews' = FALSE
  /\ error' = null
  /\ reviewFilterDays' = DefaultFilterDays
  /\ handlerApps' = <<>>
  /\ UNCHANGED << variant, history, historyIndex, appsPending, getAppsCalls,
                  pending, nextReq >>

\* ------------------------------------------------------------------------
\* Specification
\* ------------------------------------------------------------------------
Next ==
  \/ Mount
  \/ \E items \in AppLists : AppsOk(items)
  \/ \E failure \in FetchFailures : AppsRejected(failure)
  \/ \E j \in 1..MaxHistory : handlePopState(j)
  \/ \E value \in OptionValues : handleAppSelect(value)
  \/ \E i \in 1..Len(intervals) : TimerTick(i)
  \/ \E k \in 1..Len(pending) : \E items \in ResponseBodies(pending[k]) :
       ReviewsOk(k, items)
  \/ \E k \in 1..Len(pending) : \E failure \in FetchFailures :
       ReviewsRejected(k, failure)
  \/ \E value \in CustomInputs : ChangeCustomAppId(value)
  \/ handleCustomAppIdSubmit
  \/ \E value \in FilterInputs : ChangeReviewFilter(value)
  \/ ResetReviewFilter
  \/ Unmount

Spec == Init /\ [][Next]_vars

\* setInterval keeps firing its callback for as long as the interval is live.
Tick == \E i \in 1..Len(intervals) : TimerTick(i)
FairSpec == Spec /\ WF_vars(Tick)

TypeOK ==
  /\ variant \in {V1, V2}
  /\ pc \in {"init", "mounted", "unmounted"}
  /\ historyIndex \in 1..Len(history)
  /\ Len(history) <= MaxHistory
  /\ selectedAppId = null \/ IsNumber(selectedAppId)
  /\ loadingApps \in BOOLEAN
  /\ loadingReviews \in BOOLEAN
  /\ Len(reviews) <= 1
  /\ nextReq \in 1..(MaxRequests + 1)

\* ------------------------------------------------------------------------
\* Properties
\* ------------------------------------------------------------------------
\* A getReviews request for app X with the current filter leaves in this step.
IssuedFor(X) ==
  /\ nextReq' = nextReq + 1
  /\ pending' = Append(pending, [id |-> nextReq, appId |-> X,
                                 days |-> reviewFilterDays'])

\* C1: whenever an app is selected and the reviews list is not empty, every
\* review in the list belongs to the selected app.
ReviewsOfSelectedApp ==
  (Mounted /\ selectedAppId # null /\ reviews # <<>>)
    => \A i \in 1..Len(reviews) : Num(reviews[i].appId) = selectedAppId

\* C2: at most one polling interval is live; while mounted one is live
\* exactly when selectedAppId is not null; none is live before mount or
\* after unmount.
SingleTimer ==
  /\ Len(intervals) <= 1
  /\ Mounted => (Len(intervals) = 1 <=> selectedAppId # null)
  /\ ~Mounted => intervals = <<>>

\* The effect has re-run for a new fetchReviews identity and for a selection
\* from the dropdown, and exactly one interval is live.
SingleTimerWitness ==
  /\ Mounted
  /\ selectedAppId = Num(2)
  /\ reviewFilterDays = 7
  /\ intervals = <<[appId |-> 2, days |-> 7]>>

\* An app is selected in the mounted component.
Polling == Mounted /\ selectedAppId # null

\* C3: a step that makes selectedAppId a new non-null id X issues a request
\* for X at once; every timer tick issues a request for the selected app;
\* and, ticks being fair, the component never stays selected without a new
\* request being issued, whatever became of the earlier ones (up to the
\* request bound of the model).
PeriodicPolling ==
  /\ [][(Mounted' /\ selectedAppId' # selectedAppId /\ selectedAppId' # null)
          => IssuedFor(selectedAppId'.value)]_vars
  /\ [][(\E i \in 1..Len(intervals) : TimerTick(i))
          => (selectedAppId' = selectedAppId /\ IssuedFor(selectedAppId.value))]_vars
  /\ (Polling /\ nextReq <= MaxRequests)
       ~> (nextReq > MaxRequests \/ ~Polling)

\* A tick has issued a second request for the selected app while the first
\* one is still pending.
PeriodicPollingWitness ==
  /\ Mounted
  /\ Len(pending) = 2
  /\ selectedAppId = Num(pending[1].appId)
  /\ pending[2].appId = pending[1].appId
  /\ pending[2].days = pending[1].days
  /\ loadingReviews

\* C4: in App.tsx, after every dropdown selection and every popstate event
\* selectedAppId equals the app id parsed from the current URL (null when
\* the path holds none), for every option of the dropdown.
UrlStateSync ==
  [][(variant = V1 /\ (\/ \E value \in OptionValues : handleAppSelect(value)
                       \/ \E j \in 1..Len(history) : handlePopState(j)))
       => selectedAppId' = getAppIdFromUrlOfPath(history'[historyIndex'])]_vars

\* C5: a rejected getApps or getReviews request sets error to the message of
\* the rejection (or to the fallback text when the rejection is not an
\* Error), leaves the loading flag false, and changes neither apps, reviews,
\* selectedAppId nor the live interval.
FailureOnlySetsError ==
  [][/\ \A failure \in FetchFailures :
          AppsRejected(failure) =>
            LET err == apiRequest(failure)
            IN  /\ error' = IF err.isError THEN Str(err.message)
                            ELSE Str(<<"Failed to fetch apps">>)
                /\ ~loadingApps'
                /\ UNCHANGED << apps, reviews, selectedAppId, intervals >>
     /\ \A k \in 1..Len(pending) : \A failure \in FetchFailures :
          ReviewsRejected(k, failure) =>
            LET err == apiRequest(failure)
            IN  /\ error' = IF err.isError THEN Str(err.message)
                            ELSE Str(<<"Failed to fetch reviews">>)
                /\ ~loadingReviews'
                /\ UNCHANGED << apps, reviews, selectedAppId, intervals >>
    ]_vars

\* A poll failed after an earlier one had delivered reviews: the reviews,
\* the selection and the interval are still there, the error is shown.
FailureOnlySetsErrorWitness ==
  /\ Mounted
  /\ error = Str(<<"HTTP error! status: ", 500>>)
  /\ reviews # <<>>
  /\ selectedAppId # null
  /\ Len(intervals) = 1
  /\ ~loadingReviews
  /\ pending = <<>>
  /\ nextReq = 3

\* C6: in App.tsx getApps is called exactly once, on mount; when it succeeds
\* with /app/N (N > 0) in the URL, N becomes selected, listed or not, and
\* polling for N starts; with no app id in the URL the selection stays null;
\* when it fails the selection stays null and no review request leaves.
InitialLoad ==
  /\ [](getAppsCalls = IF pc = "init" THEN 0 ELSE 1)
  /\ [][variant = V1 =>
          /\ \A items \in AppLists :
               AppsOk(items) =>
                 /\ \A N \in 1..9 :
                      pathname = AppPrefix \o <<Digits[N + 1]>> =>
                        /\ selectedAppId' = Num(N)
                        /\ intervals' = <<[appId |-> N, days |-> reviewFilterDays]>>
                        /\ IssuedFor(N)
                 /\ pathname = RootPath =>
                      selectedAppId = null /\ selectedAppId' = null
          /\ \A failure \in FetchFailures :
               AppsRejected(failure) =>
                 /\ selectedAppId = null /\ selectedAppId' = null
                 /\ UNCHANGED << pending, nextReq, intervals >>
       ]_vars

\* App.tsx opened at /app/3 with a catalogue that does not list 3: app 3 is
\* selected and polled all the same.
InitialLoadWitness ==
  /\ variant = V1
  /\ Mounted
  /\ pathname = AppPrefix \o <<"3">>
  /\ apps = <<1, 2>>
  /\ selectedAppId = Num(3)
  /\ intervals = <<[appId |-> 3, days |-> DefaultFilterDays]>>
  /\ Len(history) = 1

\* C7: every getReviews request is issued by the mounted component for the
\* app selected at that moment, and no live interval belongs to an app other
\* than the selected one (so none is left to poll a deselected app, or to
\* poll after unmount).
CleanupOnChange ==
  /\ [][nextReq' # nextReq =>
          /\ Mounted'
          /\ selectedAppId' # null
          /\ IssuedFor(selectedAppId'.value)]_vars
  /\ [](\A i \in 1..Len(intervals) :
          Mounted /\ Num(intervals[i].appId) = selectedAppId)

\* The selection changed while the first app's request was pending: the one
\* live interval polls the second app.
CleanupOnChangeWitness ==
  /\ Mounted
  /\ Len(pending) = 2
  /\ pending[1].appId # pending[2].appId
  /\ Len(intervals) = 1
  /\ intervals[1].appId = pending[2].appId
  /\ selectedAppId = Num(pending[2].appId)

\* C8: selectedAppId is null or a positive integer, and requests and
\* intervals exist only for positive app ids.
SelectedIdPositive ==
  /\ selectedAppId = null \/ (IsNumber(selectedAppId) /\ selectedAppId.value > 0)
  /\ \A i \in 1..Len(pending) : pending[i].appId > 0
  /\ \A i \in 1..Len(intervals) : intervals[i].appId > 0

\* What C9 says of a URL whose id is read as present when present(u) holds:
\* on popstate and at mount the id is selected only if the current apps list
\* holds it, otherwise it goes to the custom field; without an id popstate
\* clears both.
UrlSelectionRule(present(_)) ==
  variant = V2 =>
    /\ \A j \in 1..Len(history) :
         handlePopState(j) =>
           LET u == getAppIdFromUrlOfPath(history[j])
           IN  IF present(u)
               THEN IF some(apps, u.value)
                    THEN selectedAppId' = u /\ customAppId' = <<>>
                    ELSE /\ selectedAppId' = null
                         /\ customAppId' = toString(u.value)
               ELSE selectedAppId' = null /\ customAppId' = <<>>
    /\ \A items \in AppLists :
         AppsOk(items) =>
           LET u == getAppIdFromUrl
           IN  present(u) =>
                 IF some(items, u.value)
                 THEN selectedAppId' = u
                 ELSE /\ selectedAppId = null /\ selectedAppId' = null
                      /\ customAppId' = toString(u.value)

IdInUrl(u) == u # null
PositiveIdInUrl(u) == u # null /\ u.value > 0

\* C9 (as stated): in part_001 every id N found in the URL is selected only
\* if N is in apps, and otherwise becomes the text of the custom field.
UrlSelectionWithinApps == [][UrlSelectionRule(IdInUrl)]_vars

\* C9 (amended): the same for every id N > 0; the id 0 is treated as no id.
UrlSelectionWithinAppsPositive == [][UrlSelectionRule(PositiveIdInUrl)]_vars

\* Back to /app/3 after app 1 was picked from the catalogue <<1, 2>>: nothing
\* is selected and the custom field holds "3".
UrlSelectionWitness ==
  /\ variant = V2
  /\ Mounted
  /\ apps = <<1, 2>>
  /\ history = <<AppPrefix \o <<"3">>, AppPrefix \o <<"1">>>>
  /\ historyIndex = 1
  /\ selectedAppId = null
  /\ customAppId = <<"3">>
  /\ intervals = <<>>

\* C10: in part_001 submitting the custom form with a string whose parseInt
\* is a positive N selects N, clears the field and pushes /app/N; any other
\* string sets the validation error and leaves selection, field, reviews,
\* URL, history and interval as they were.
CustomSubmit ==
  [][(variant = V2 /\ handleCustomAppIdSubmit) =>
       LET p == parseInt(customAppId)
       IN  IF p # NaN /\ p.value > 0
           THEN /\ selectedAppId' = p
                /\ customAppId' = <<>>
                /\ history' = Append(SubSeq(history, 1, historyIndex),
                                     AppPrefix \o toString(p.value))
                /\ historyIndex' = historyIndex + 1
           ELSE /\ error' = Str(<<"Please enter a valid app ID (positive number)">>)
                /\ UNCHANGED << selectedAppId, customAppId, reviews, history,
                                historyIndex, intervals >>
    ]_vars

\* App 3 was loaded through the form, then "0" was submitted: the error is
\* shown, app 3 stays selected and polled, the field still holds "0".
CustomSubmitWitness ==
  /\ variant = V2
  /\ Mounted
  /\ selectedAppId = Num(3)
  /\ pathname = AppPrefix \o <<"3">>
  /\ customAppId = <<"0">>
  /\ error = Str(<<"Please enter a valid app ID (positive number)">>)
  /\ intervals = <<[appId |-> 3, days |-> reviewFilterDays]>>

\* C11: in part_001 the interval stays live while an error is shown; every
\* successful getReviews response sets error to null; error goes from
\* non-null to null only in a successful getApps or getReviews response;
\* and an error shown while nothing is selected is cleared only by a
\* successful getReviews response.
ErrorsTransient ==
  /\ []((variant = V2 /\ Mounted /\ error # null /\ selectedAppId # null)
          => Len(intervals) = 1)
  /\ [][variant = V2 =>
          \A k \in 1..Len(pending) : \A items \in ResponseBodies(pending[k]) :
            ReviewsOk(k, items) => error' = null]_vars
  /\ [][(variant = V2 /\ Mounted' /\ error # null /\ error' = null) =>
          \/ \E items \in AppLists : AppsOk(items)
          \/ \E k \in 1..Len(pending) : \E items \in ResponseBodies(pending[k]) :
               ReviewsOk(k, items)]_vars
  /\ [][(variant = V2 /\ Mounted' /\ error # null /\ selectedAppId = null
           /\ error' = null) =>
          \E k \in 1..Len(pending) : \E items \in ResponseBodies(pending[k]) :
            ReviewsOk(k, items)]_vars

\* The first request of the selected app failed, the error view is shown,
\* and a tick has issued the next request all the same.
ErrorsTransientWitness ==
  /\ variant = V2
  /\ Mounted
  /\ error = Str(<<"HTTP error! status: ", 500>>)
  /\ selectedAppId # null
  /\ Len(intervals) = 1
  /\ Len(pending) = 1
  /\ pending[1].id = 2
  /\ pending[1].appId = selectedAppId.value
  /\ loadingReviews

\* C12: when a successful response for the selected app leaves no getReviews
\* request in flight, reviews holds the answer to the most recently issued
\* request (id nextReq - 1) and not the answer to an earlier one, in
\* whatever order the responses arrived.
LatestRequestWins ==
  [][\A k \in 1..Len(pending) : \A items \in ResponseBodies(pending[k]) :
       (/\ ReviewsOk(k, items)
        /\ pending' = <<>>
        /\ Num(pending[k].appId) = selectedAppId)
         => \A i \in 1..Len(reviews') : reviews'[i].req = nextReq - 1]_vars

\* C13: while mounted, loadingReviews is true exactly when a getReviews
\* request is in flight, and loadingApps exactly when the getApps request is.
LoadingFlagsTrackRequests ==
  Mounted =>
    /\ loadingReviews <=> pending # <<>>
    /\ loadingApps <=> appsPending

====
